---- MODULE Spec2Model ----
(***************************************************************************)
(* Model of the trends data cleaner: cleanTrendsData (the simple variant   *)
(* of data-cleaner and the quote-aware variant), cleanTrendsDataArray,     *)
(* convertCleanedDataToCSV and the CSV line parser of evaluateTopics.      *)
(*                                                                         *)
(* A JavaScript string is a sequence of characters; a character is a       *)
(* one-character TLA+ string, except the four named below.                 *)
(***************************************************************************)
EXTENDS Integers, Sequences, FiniteSets, TLC

VARIABLES mode, rawDataArray, cleaned, csv, parsed, pc

vars == <<mode, rawDataArray, cleaned, csv, parsed, pc>>

\* ------------------------------------------------------------------------
\* Characters
\* ------------------------------------------------------------------------
MidDot == "mid"      \* U+00B7, the middle dot
DQuote == "dq"       \* the double quote
BSlash == "bs"       \* the backslash
NewLine == "nl"      \* the line feed

Digits == {"0", "1", "2", "3", "4", "5", "6", "7", "8", "9"}

LowerLetters ==
  {"a", "b", "c", "d", "e", "f", "g", "h", "i", "j", "k", "l", "m",
   "n", "o", "p", "q", "r", "s", "t", "u", "v", "w", "x", "y", "z"}

UpperLetters ==
  {"A", "B", "C", "D", "E", "F", "G", "H", "I", "J", "K", "L", "M",
   "N", "O", "P", "Q", "R", "S", "T", "U", "V", "W", "X", "Y", "Z"}

\* \s of a JavaScript regular expression and the set String.trim removes
WhiteSpace == {" ", NewLine}

LowerOf ==
  [c \in UpperLetters |->
     CASE c = "A" -> "a" [] c = "B" -> "b" [] c = "C" -> "c" [] c = "D" -> "d"
       [] c = "E" -> "e" [] c = "F" -> "f" [] c = "G" -> "g" [] c = "H" -> "h"
       [] c = "I" -> "i" [] c = "J" -> "j" [] c = "K" -> "k" [] c = "L" -> "l"
       [] c = "M" -> "m" [] c = "N" -> "n" [] c = "O" -> "o" [] c = "P" -> "p"
       [] c = "Q" -> "q" [] c = "R" -> "r" [] c = "S" -> "s" [] c = "T" -> "t"
       [] c = "U" -> "u" [] c = "V" -> "v" [] c = "W" -> "w" [] c = "X" -> "x"
       [] c = "Y" -> "y" [] OTHER -> "z"]

\* the folding of the i flag of a regular expression
Fold(c) == IF c \in UpperLetters THEN LowerOf[c] ELSE c

\* ------------------------------------------------------------------------
\* String primitives
\* ------------------------------------------------------------------------
\* s.substring(from - 1, to) with 1-based inclusive bounds
Sub(s, from, to) == IF from > to THEN <<>> ELSE SubSeq(s, from, to)

\* lit occurs in s at position p (case-sensitive)
OccursAt(s, p, lit) ==
  /\ p >= 1
  /\ p + Len(lit) - 1 <= Len(s)
  /\ \A k \in 1..Len(lit) : s[p + k - 1] = lit[k]

\* lit occurs in s at position p under the i flag
OccursAtI(s, p, lit) ==
  /\ p >= 1
  /\ p + Len(lit) - 1 <= Len(s)
  /\ \A k \in 1..Len(lit) : Fold(s[p + k - 1]) = Fold(lit[k])

\* String.prototype.includes
Includes(s, lit) == \E p \in 1..(Len(s) - Len(lit) + 1) : OccursAt(s, p, lit)

\* /\d/.test(s) and /\d+/.test(s)
HasDigit(s) == \E p \in 1..Len(s) : s[p] \in Digits

\* first position >= p of s that holds no character of set (Len(s)+1 if none)
RECURSIVE SkipRun(_, _, _)
SkipRun(s, p, set) ==
  IF p <= Len(s) /\ s[p] \in set THEN SkipRun(s, p + 1, set) ELSE p

\* last position <= p of s that holds no character of set (0 if none)
RECURSIVE SkipRunBack(_, _, _)
SkipRunBack(s, p, set) ==
  IF p >= 1 /\ s[p] \in set THEN SkipRunBack(s, p - 1, set) ELSE p

\* String.prototype.trim
Trim(s) ==
  LET a == SkipRun(s, 1, WhiteSpace)
      b == SkipRunBack(s, Len(s), WhiteSpace)
  IN  Sub(s, a, b)

\* s.replace(/^"|"$/g, ''): one leading and one trailing double quote
StripWrapQuotes(s) ==
  LET a == IF Len(s) >= 1 /\ s[1] = DQuote THEN 2 ELSE 1
      b == IF Len(s) >= a /\ s[Len(s)] = DQuote THEN Len(s) - 1 ELSE Len(s)
  IN  Sub(s, a, b)

\* s.replace(/"/g, ''): every double quote
RemoveQuotes(s) == SelectSeq(s, LAMBDA c : c # DQuote)

\* s.replace(/^·+|·+$/g, ''): the leading and the trailing run of middle dots
StripDots(s) ==
  LET a == SkipRun(s, 1, {MidDot})
      b == SkipRunBack(s, Len(s), {MidDot})
  IN  Sub(s, a, b)

\* s.replace(/^·/, ''): one leading middle dot
StripLeadDot(s) ==
  IF Len(s) >= 1 /\ s[1] = MidDot THEN Sub(s, 2, Len(s)) ELSE s

\* /^[a-zA-Z\s]+$/.test(s)
IsAlphaSpace(s) ==
  /\ Len(s) >= 1
  /\ \A k \in 1..Len(s) : s[k] \in LowerLetters \cup UpperLetters \cup WhiteSpace

\* Array.prototype.join
RECURSIVE Join(_, _)
Join(parts, sep) ==
  IF Len(parts) = 0 THEN <<>>
  ELSE IF Len(parts) = 1 THEN parts[1]
  ELSE parts[1] \o sep \o Join(Tail(parts), sep)

\* the least element of a set of positions, 0 for the empty set
MinOrZero(S) == IF S = {} THEN 0 ELSE CHOOSE p \in S : \A q \in S : p <= q

\* Array.prototype.find: the index of the first field whose flag is set,
\* 0 if none; flags[i] is the predicate's value on the i-th field
FindIndex(flags) == MinOrZero({i \in DOMAIN flags : flags[i]})

\* String.prototype.match without the g flag: <<start, end>> of the leftmost
\* match, <<0, 0>> for null.  ends[p] is the last position of the match the
\* pattern finds starting at p, 0 if it finds none there.
Match(ends) ==
  LET p == MinOrZero({q \in DOMAIN ends : ends[q] # 0})
  IN  IF p = 0 THEN <<0, 0>> ELSE <<p, ends[p]>>

\* ------------------------------------------------------------------------
\* The field splitters
\* ------------------------------------------------------------------------
Comma == <<",">>

\* current.trim().replace(/^"|"$/g, '')
CleanQuoted(current) == StripWrapQuotes(Trim(current))

\* a loop body that ends a field at every comma, quoted or not
SplitStepEveryComma(rawData, i, st) ==
  LET char == rawData[i] IN
  IF char = DQuote /\ (i = 1 \/ rawData[i - 1] # BSlash)
  THEN [fields |-> st.fields, current |-> Append(st.current, char),
        inQuotes |-> ~st.inQuotes]
  ELSE IF char = ","
  THEN [fields |-> Append(st.fields, CleanQuoted(st.current)),
        current |-> <<>>, inQuotes |-> st.inQuotes]
  ELSE [fields |-> st.fields, current |-> Append(st.current, char),
        inQuotes |-> st.inQuotes]

\* the body of the character loop of the quote-aware variant at position i;
\* st holds the loop's fields, current and inQuotes
SplitStep(rawData, i, st) ==
  LET char == rawData[i] IN
  IF char = DQuote /\ (i = 1 \/ rawData[i - 1] # BSlash)
  THEN [fields |-> st.fields, current |-> Append(st.current, char),
        inQuotes |-> ~st.inQuotes]
  ELSE IF char = "," /\ ~st.inQuotes
  THEN [fields |-> Append(st.fields, CleanQuoted(st.current)),
        current |-> <<>>, inQuotes |-> st.inQuotes]
  ELSE [fields |-> st.fields, current |-> Append(st.current, char),
        inQuotes |-> st.inQuotes]

\* the iterations lo..hi of the loop, in order, run as two halves
RECURSIVE SplitLoop(_, _, _, _)
SplitLoop(rawData, lo, hi, st) ==
  IF lo > hi THEN st
  ELSE IF lo = hi THEN SplitStep(rawData, lo, st)
  ELSE LET mid == (lo + hi) \div 2
           half == SplitLoop(rawData, lo, mid, st)
       IN  \* the test makes TLC compute the first half before the second
           IF half.inQuotes \in BOOLEAN
           THEN SplitLoop(rawData, mid + 1, hi, half) ELSE half

\* the loop, then `if (current) fields.push(...)`
SplitQuoteAware(rawData) ==
  LET st == SplitLoop(rawData, 1, Len(rawData),
                      [fields |-> <<>>, current |-> <<>>, inQuotes |-> FALSE])
  IN  IF st.current # <<>> THEN Append(st.fields, CleanQuoted(st.current))
      ELSE st.fields

\* String.prototype.split(sep) for a one-character separator: the pieces
\* between consecutive separators, "" giving one empty piece
SplitOn(s, sep) ==
  LET seps == {p \in 1..Len(s) : s[p] = sep}
      n == Cardinality(seps)
      Nth(k) == IF k = 0 THEN 0
                ELSE IF k = n + 1 THEN Len(s) + 1
                ELSE CHOOSE p \in seps : Cardinality({q \in seps : q < p}) = k - 1
  IN  [k \in 1..(n + 1) |-> Sub(s, Nth(k - 1) + 1, Nth(k) - 1)]

\* a field cleaning that removes the quotes and keeps the whitespace
CleanSimpleNoTrim(field) == RemoveQuotes(field)

\* field.replace(/"/g, '').trim()
CleanSimple(field) == Trim(RemoveQuotes(field))

SplitSimple(rawData) ==
  LET pieces == SplitOn(rawData, ",")
  IN  [k \in 1..Len(pieces) |-> CleanSimple(pieces[k])]

\* ------------------------------------------------------------------------
\* Literals of the cleaner
\* ------------------------------------------------------------------------
LitSearches == <<"s", "e", "a", "r", "c", "h", "e", "s">>
LitSearche == <<"s", "e", "a", "r", "c", "h", "e">>
LitKPlus == <<"K", "+">>
LitMPlus == <<"M", "+">>
LitAgo == <<"a", "g", "o">>
LitHoursAgo == <<"h", "o", "u", "r", "s", " ", "a", "g", "o">>
LitHAgo == <<"h", " ", "a", "g", "o">>
LitMAgo == <<"m", " ", "a", "g", "o">>
LitPercent == <<"%">>
LitArrowUpward == <<"a", "r", "r", "o", "w", "_", "u", "p", "w", "a", "r", "d">>

noiseWords ==
  << <<"S", "e", "a", "r", "c", "h", " ", "t", "e", "r", "m">>,
     <<"q", "u", "e", "r", "y", "_", "s", "t", "a", "t", "s", "E", "x", "p", "l", "o", "r", "e">>,
     <<"M", "o", "r", "e", " ", "a", "c", "t", "i", "o", "n", "s">>,
     <<"A", "c", "t", "i", "v", "e">>,
     <<"t", "r", "e", "n", "d", "i", "n", "g", "_", "u", "p">>,
     <<"c", "h", "e", "c", "k", "l", "i", "s", "t", "S", "e", "l", "e", "c", "t">>,
     <<"m", "o", "r", "e", "_", "v", "e", "r", "t">> >>

\* .slice(0, 5)
MaxRelated == 5

\* cleanField.length > 3
MinTermLen == 3

\* ------------------------------------------------------------------------
\* The patterns of the field classifier
\* ------------------------------------------------------------------------
\* (\d+[KM]?\+?) of the volume pattern at p: the position after the group,
\* 0 if no digit stands at p
VolumeGroupEnd(s, p) ==
  LET d == SkipRun(s, p, Digits)
      k == IF d <= Len(s) /\ Fold(s[d]) \in {"k", "m"} THEN d + 1 ELSE d
      pl == IF k <= Len(s) /\ s[k] = "+" THEN k + 1 ELSE k
  IN  IF d = p THEN 0 ELSE pl

\* /(\d+[KM]?\+?)\s*searches?/i at p: the last position of the match, 0 if none
VolumeEndAt(s, p) ==
  LET g == VolumeGroupEnd(s, p)
      w == SkipRun(s, g, WhiteSpace)
      e == w + Len(LitSearche)
  IN  IF g = 0 \/ ~OccursAtI(s, w, LitSearche) THEN 0
      ELSE IF e <= Len(s) /\ Fold(s[e]) = "s" THEN e ELSE e - 1

\* the unit alternatives, in the order the pattern lists them
TimeUnitsFull == << <<"h", "o", "u", "r", "s">>, <<"h", "o", "u", "r">>, <<"h">>, <<"m", "i", "n", "u", "t", "e", "s">>, <<"m", "i", "n", "u", "t", "e">>, <<"m">> >>
TimeUnitsHours == << <<"h", "o", "u", "r", "s">>, <<"h", "o", "u", "r">>, <<"h">> >>

\* the first unit of units, from index k on, that stands at w and is followed
\* by \s*ago: the last position of that "ago", 0 if no unit does
RECURSIVE UnitAgoEnd(_, _, _, _)
UnitAgoEnd(s, w, units, k) ==
  IF k > Len(units) THEN 0
  ELSE LET a == SkipRun(s, w + Len(units[k]), WhiteSpace)
       IN  IF OccursAtI(s, w, units[k]) /\ OccursAtI(s, a, LitAgo)
           THEN a + Len(LitAgo) - 1
           ELSE UnitAgoEnd(s, w, units, k + 1)

\* \d+\s*(?:units)\s*ago at p under the i flag
TimeEndWith(s, p, units) ==
  LET d == SkipRun(s, p, Digits)
  IN  IF d = p THEN 0 ELSE UnitAgoEnd(s, SkipRun(s, d, WhiteSpace), units, 1)

\* /(\d+\s*(?:hours?|h|minutes?|m)\s*ago)/i
TimeEndAtFull(s, p) == TimeEndWith(s, p, TimeUnitsFull)

\* /(\d+\s*(?:hours?|h)\s*ago)/i
TimeEndAtHours(s, p) == TimeEndWith(s, p, TimeUnitsHours)

\* (?:,\d{3})*% from q on, greedy with backtracking: the position of the %
RECURSIVE GroupsPercentEnd(_, _)
GroupsPercentEnd(s, q) ==
  LET more == IF /\ q + 3 <= Len(s)
                 /\ s[q] = ","
                 /\ \A k \in 1..3 : s[q + k] \in Digits
              THEN GroupsPercentEnd(s, q + 4) ELSE 0
  IN  IF more # 0 THEN more
      ELSE IF q <= Len(s) /\ s[q] = "%" THEN q ELSE 0

\* \d{n} at p followed by (?:,\d{3})*%
DigitsThenGroups(s, p, n) ==
  IF p + n - 1 <= Len(s) /\ \A k \in 0..(n - 1) : s[p + k] \in Digits
  THEN GroupsPercentEnd(s, p + n) ELSE 0

\* /(\d{1,3}(?:,\d{3})*%)/ at p: three digits are tried first, then two, one
GroupedEndAt(s, p) ==
  IF DigitsThenGroups(s, p, 3) # 0 THEN DigitsThenGroups(s, p, 3)
  ELSE IF DigitsThenGroups(s, p, 2) # 0 THEN DigitsThenGroups(s, p, 2)
  ELSE DigitsThenGroups(s, p, 1)

\* /arrow_upward(\d{1,3}(?:,\d{3})*%)/ at p
ArrowEndAt(s, p) ==
  IF OccursAt(s, p, LitArrowUpward)
  THEN GroupedEndAt(s, p + Len(LitArrowUpward)) ELSE 0

\* (?:,\d+)*% from q on: the position of the %.  A group takes the whole
\* digit run: a shorter one is followed by a digit, which the pattern rejects
RECURSIVE LooseGroupsEnd(_, _)
LooseGroupsEnd(s, q) ==
  LET d == SkipRun(s, q + 1, Digits)
      more == IF q <= Len(s) /\ s[q] = "," /\ d > q + 1
              THEN LooseGroupsEnd(s, d) ELSE 0
  IN  IF more # 0 THEN more
      ELSE IF q <= Len(s) /\ s[q] = "%" THEN q ELSE 0

\* /(\d+(?:,\d+)*%)/ at p
LooseEndAt(s, p) ==
  LET d == SkipRun(s, p, Digits)
  IN  IF d = p THEN 0 ELSE LooseGroupsEnd(s, d)

\* /(\d+,?\d*%)/ at p: the pattern of the simple variant
SimpleGrowthEndAt(s, p) ==
  LET d == SkipRun(s, p, Digits)
      c == IF d <= Len(s) /\ s[d] = "," THEN SkipRun(s, d + 1, Digits) ELSE d
  IN  IF d = p THEN 0
      ELSE IF c <= Len(s) /\ s[c] = "%" THEN c ELSE 0

\* the leftmost match of each pattern in s
VolumeMatch(s) == Match([q \in 1..Len(s) |-> VolumeEndAt(s, q)])
TimeMatchFull(s) == Match([q \in 1..Len(s) |-> TimeEndAtFull(s, q)])
TimeMatchHours(s) == Match([q \in 1..Len(s) |-> TimeEndAtHours(s, q)])
GroupedMatch(s) == Match([q \in 1..Len(s) |-> GroupedEndAt(s, q)])
ArrowMatch(s) == Match([q \in 1..Len(s) |-> ArrowEndAt(s, q)])
LooseMatch(s) == Match([q \in 1..Len(s) |-> LooseEndAt(s, q)])
SimpleGrowthMatch(s) == Match([q \in 1..Len(s) |-> SimpleGrowthEndAt(s, q)])

\* match[1] of the volume pattern, '' when the match is null
VolumeCapture(s) ==
  LET m == VolumeMatch(s)
  IN  IF m[1] = 0 THEN <<>> ELSE Sub(s, m[1], VolumeGroupEnd(s, m[1]) - 1)

\* the text of a match, '' for null
MatchText(s, m) == IF m[1] = 0 THEN <<>> ELSE Sub(s, m[1], m[2])

\* ------------------------------------------------------------------------
\* cleanTrendsData
\* ------------------------------------------------------------------------
Modes == {"simple", "quoteAware"}

\* the field list of the variant
SplitFields(m, rawData) ==
  IF m = "simple" THEN SplitSimple(rawData) ELSE SplitQuoteAware(rawData)

\* fields[0] without the default, undefined printing as text
TrendNameOfNoDefault(fields) ==
  IF Len(fields) = 0 THEN <<"u", "n", "d", "e", "f", "i", "n", "e", "d">>
  ELSE fields[1]

\* fields[0] || ''
TrendNameOf(fields) == IF Len(fields) = 0 THEN <<>> ELSE fields[1]

\* the predicate of the volume find
IsVolumeField(field) ==
  /\ Includes(field, LitSearches)
  /\ (Includes(field, LitKPlus) \/ Includes(field, LitMPlus) \/ HasDigit(field))

\* a volume extraction that goes on to later fields when the pattern finds
\* nothing in the first qualifying one
SearchVolumeOfAnyField(fields) ==
  LET i == FindIndex([k \in 1..Len(fields) |->
                        IsVolumeField(fields[k]) /\ VolumeCapture(fields[k]) # <<>>])
  IN  IF i = 0 THEN <<>> ELSE VolumeCapture(fields[i])

SearchVolumeOf(fields) ==
  LET i == FindIndex([k \in 1..Len(fields) |-> IsVolumeField(fields[k])])
  IN  IF i = 0 THEN <<>> ELSE VolumeCapture(fields[i])

\* the predicate of the time find (every alternative contains 'ago')
IsTimeField(field) ==
  \/ Includes(field, LitAgo)
  \/ Includes(field, LitHoursAgo)
  \/ Includes(field, LitHAgo)
  \/ Includes(field, LitMAgo)

\* the time extraction with a fallback that keeps the leading middle dot
TimeAgoOfFieldKeepDot(m, timeMatch) ==
  LET match == IF m = "simple" THEN TimeMatchHours(timeMatch)
               ELSE TimeMatchFull(timeMatch)
  IN  IF match[1] # 0 THEN MatchText(timeMatch, match) ELSE Trim(timeMatch)

\* match ? match[1] : timeMatch.replace(/^·/, '').trim()
TimeAgoOfField(m, timeMatch) ==
  LET match == IF m = "simple" THEN TimeMatchHours(timeMatch)
               ELSE TimeMatchFull(timeMatch)
  IN  IF match[1] # 0 THEN MatchText(timeMatch, match)
      ELSE Trim(StripLeadDot(timeMatch))

TimeAgoOf(m, fields) ==
  LET i == FindIndex([k \in 1..Len(fields) |-> IsTimeField(fields[k])])
  IN  IF i = 0 THEN <<>> ELSE TimeAgoOfField(m, fields[i])

\* the predicate of the growth find of the quote-aware variant
IsGrowthField(field) == Includes(field, LitPercent) /\ HasDigit(field)

\* a fallback that keeps the whole field when none of its patterns matches
FallbackCaptureWholeField(growthMatch) ==
  LET m1 == ArrowMatch(growthMatch)
      m2 == GroupedMatch(growthMatch)
      m3 == LooseMatch(growthMatch)
  IN  IF m1[1] # 0
      THEN Sub(growthMatch, m1[1] + Len(LitArrowUpward), m1[2])
      ELSE IF m2[1] # 0 THEN MatchText(growthMatch, m2)
      ELSE IF m3[1] # 0 THEN MatchText(growthMatch, m3)
      ELSE growthMatch

\* the three patterns of the per-field fallback, in order
FallbackCapture(growthMatch) ==
  LET m1 == ArrowMatch(growthMatch)
      m2 == GroupedMatch(growthMatch)
      m3 == LooseMatch(growthMatch)
  IN  IF m1[1] # 0
      THEN Sub(growthMatch, m1[1] + Len(LitArrowUpward), m1[2])
      ELSE IF m2[1] # 0 THEN MatchText(growthMatch, m2)
      ELSE MatchText(growthMatch, m3)

GrowthFallback(fields) ==
  LET i == FindIndex([k \in 1..Len(fields) |-> IsGrowthField(fields[k])])
  IN  IF i = 0 THEN <<>> ELSE FallbackCapture(fields[i])

\* a growth extraction that looks in the individual fields only
GrowthPerFieldOnly(rawData, fields) == GrowthFallback(fields)

\* the whole-blob match, then the fallback
GrowthQuoteAware(rawData, fields) ==
  LET percentageMatch == GroupedMatch(rawData)
  IN  IF percentageMatch[1] # 0 THEN MatchText(rawData, percentageMatch)
      ELSE GrowthFallback(fields)

\* the predicate of the growth find of the simple variant
IsGrowthFieldSimple(field) ==
  /\ Includes(field, LitPercent)
  /\ (Includes(field, LitArrowUpward) \/ HasDigit(field))

GrowthSimple(fields) ==
  LET i == FindIndex([k \in 1..Len(fields) |-> IsGrowthFieldSimple(fields[k])])
  IN  IF i = 0 THEN <<>> ELSE MatchText(fields[i], SimpleGrowthMatch(fields[i]))

GrowthOf(m, rawData, fields) ==
  IF m = "simple" THEN GrowthSimple(fields) ELSE GrowthQuoteAware(rawData, fields)

\* field.replace(/^·+|·+$/g, '').trim()
CleanField(field) == Trim(StripDots(field))

\* a noise test that only knows the first label
IsNoiseFirstOnly(cleanField) == Includes(cleanField, noiseWords[1])

\* noiseWords.some(noise => cleanField.includes(noise))
IsNoise(cleanField) ==
  \E k \in 1..Len(noiseWords) : Includes(cleanField, noiseWords[k])

\* the admission condition without its 'ago' test
AdmitsNoAgo(cleanField, trendName) ==
  /\ Len(cleanField) > MinTermLen
  /\ ~IsNoise(cleanField)
  /\ ~Includes(cleanField, trendName)
  /\ ~Includes(cleanField, LitSearches)
  /\ ~Includes(cleanField, LitPercent)
  /\ IsAlphaSpace(cleanField)

\* an admission condition that skips the trend-name test for an empty name
AdmitsWhenNameless(cleanField, trendName) ==
  /\ Len(cleanField) > MinTermLen
  /\ ~IsNoise(cleanField)
  /\ trendName = <<>> \/ ~Includes(cleanField, trendName)
  /\ ~Includes(cleanField, LitSearches)
  /\ ~Includes(cleanField, LitPercent)
  /\ ~Includes(cleanField, LitAgo)
  /\ IsAlphaSpace(cleanField)

\* the condition under which a cleaned field is added to relatedTerms
Admits(cleanField, trendName) ==
  /\ Len(cleanField) > MinTermLen
  /\ ~IsNoise(cleanField)
  /\ ~Includes(cleanField, trendName)
  /\ ~Includes(cleanField, LitSearches)
  /\ ~Includes(cleanField, LitPercent)
  /\ ~Includes(cleanField, LitAgo)
  /\ IsAlphaSpace(cleanField)

\* an add that moves a string already present to the end
SetAddMoveLast(terms, x) == Append(SelectSeq(terms, LAMBDA y : y # x), x)

\* Set.prototype.add on a set kept in insertion order
SetAdd(terms, x) ==
  IF \E k \in 1..Len(terms) : terms[k] = x THEN terms ELSE Append(terms, x)

\* the forEach over the fields, from index i on
RECURSIVE RelatedTerms(_, _, _, _)
RelatedTerms(fields, i, trendName, terms) ==
  IF i > Len(fields) THEN terms
  ELSE LET cleanField == CleanField(fields[i])
       IN  RelatedTerms(fields, i + 1, trendName,
                        IF Admits(cleanField, trendName)
                        THEN SetAdd(terms, cleanField) ELSE terms)

\* the related terms without the slice
TopRelatedAll(terms) == terms

\* Array.from(relatedTerms).slice(0, 5)
TopRelated(terms) ==
  IF Len(terms) <= MaxRelated THEN terms ELSE SubSeq(terms, 1, MaxRelated)

RecordOf(m, rawData, fields) ==
  [trendName |-> TrendNameOf(fields),
   searchVolume |-> SearchVolumeOf(fields),
   timeAgo |-> TimeAgoOf(m, fields),
   growthPercentage |-> GrowthOf(m, rawData, fields),
   relatedSearches |-> TopRelated(RelatedTerms(fields, 1, TrendNameOf(fields), <<>>))]

cleanTrendsData(m, rawData) == RecordOf(m, rawData, SplitFields(m, rawData))

\* ------------------------------------------------------------------------
\* cleanTrendsDataArray, convertCleanedDataToCSV, the parser of evaluateTopics
\* ------------------------------------------------------------------------
\* a row is a fragment list or a pre-joined blob
ArrayRow(frags) == [kind |-> "array", value |-> frags]
StringRow(blob) == [kind |-> "string", value |-> blob]

\* the blob the map callback hands to cleanTrendsData
RowBlob(row) == IF row.kind = "array" THEN Join(row.value, Comma) ELSE row.value

\* the callback of rawDataArray.map
CleanRow(m, row) == cleanTrendsData(m, RowBlob(row))

\* `"${value}"`
Quoted(value) == <<DQuote>> \o value \o <<DQuote>>

LitHeader ==
  <<"T", "r", "e", "n", "d", " ", "N", "a", "m", "e", ",", "S", "e", "a",
    "r", "c", "h", " ", "V", "o", "l", "u", "m", "e", ",", "T", "i", "m",
    "e", " ", "A", "g", "o", ",", "G", "r", "o", "w", "t", "h", " ", "%",
    ",", "R", "e", "l", "a", "t", "e", "d", " ", "S", "e", "a", "r", "c",
    "h", "e", "s">>

\* a line whose related searches are joined by ';' alone
CsvLineNoSpace(item) ==
  Join(<<Quoted(item.trendName), Quoted(item.searchVolume), Quoted(item.timeAgo),
         Quoted(item.growthPercentage),
         Quoted(Join(item.relatedSearches, <<";">>))>>, Comma) \o <<NewLine>>

\* one line of the serializer: row.join(',') + '\n'
CsvLine(item) ==
  Join(<<Quoted(item.trendName), Quoted(item.searchVolume), Quoted(item.timeAgo),
         Quoted(item.growthPercentage),
         Quoted(Join(item.relatedSearches, <<";", " ">>))>>, Comma) \o <<NewLine>>

RECURSIVE CsvLines(_)
CsvLines(items) ==
  IF Len(items) = 0 THEN <<>> ELSE CsvLine(Head(items)) \o CsvLines(Tail(items))

convertCleanedDataToCSV(cleanedDataArray) ==
  LitHeader \o <<NewLine>> \o CsvLines(cleanedDataArray)

\* field.replace(/^"|"$/g, '').trim()
ParseCell(field) == Trim(StripWrapQuotes(field))

\* the i-th destructured cell, undefined or '' giving ''
CellOr(cells, i) == IF i <= Len(cells) THEN cells[i] ELSE <<>>

\* relatedSearches ? relatedSearches.split(';').map(s => s.trim()) : []
ParseRelated(cell) ==
  IF cell = <<>> THEN <<>>
  ELSE LET parts == SplitOn(cell, ";")
       IN  [k \in 1..Len(parts) |-> Trim(parts[k])]

\* the record evaluateTopics builds from one line
ParseLine(line) ==
  LET pieces == SplitOn(line, ",")
      cells == [k \in 1..Len(pieces) |-> ParseCell(pieces[k])]
  IN  [trendName |-> CellOr(cells, 1),
       searchVolume |-> CellOr(cells, 2),
       timeAgo |-> CellOr(cells, 3),
       growthPercentage |-> CellOr(cells, 4),
       relatedSearches |-> ParseRelated(CellOr(cells, 5))]

\* csvContent.split('\n').slice(1).filter(line => line.trim())
DataLines(csvContent) ==
  SelectSeq(Tail(SplitOn(csvContent, NewLine)),
            LAMBDA line : Trim(line) # <<>>)

\* the records evaluateTopics evaluates: `if (!name) continue`
ParseCSV(csvContent) ==
  LET lines == DataLines(csvContent)
      recs == [k \in 1..Len(lines) |-> ParseLine(lines[k])]
  IN  SelectSeq(recs, LAMBDA r : r.trendName # <<>>)

\* ------------------------------------------------------------------------
\* Inputs
\* ------------------------------------------------------------------------
\* the raw blob of Scenario A
ScenarioA ==
  <<DQuote, "b", "r", "e", "t", "t", " ", "j", "a", "m", "e", "s", DQuote,
    ",", DQuote, "2", "0", "0", "K", "+", " ", "s", "e", "a", "r", "c",
    "h", "e", "s", MidDot, "t", "r", "e", "n", "d", "i", "n", "g", "_",
    "u", "p", "A", "c", "t", "i", "v", "e", MidDot, "2", "0", "h", " ",
    "a", "g", "o", DQuote, ",", DQuote, "2", "0", "0", "K", "+", "a", "r",
    "r", "o", "w", "_", "u", "p", "w", "a", "r", "d", "1", ",", "0", "0",
    "0", "%", DQuote, ",", DQuote, "b", "r", "e", "t", "t", " ", "j", "a",
    "m", "e", "s", " ", "p", "l", "a", "n", "e", " ", "c", "r", "a", "s",
    "h", DQuote, ",", DQuote, "S", "e", "a", "r", "c", "h", " ", "t", "e",
    "r", "m", DQuote>>

\* the rawData of the example usage
ExampleRawData ==
  <<DQuote, "b", "r", "e", "t", "t", " ", "j", "a", "m", "e", "s", DQuote,
    ",", DQuote, "2", "0", "0", "K", "+", " ", "s", "e", "a", "r", "c",
    "h", "e", "s", MidDot, "t", "r", "e", "n", "d", "i", "n", "g", "_",
    "u", "p", "A", "c", "t", "i", "v", "e", MidDot, "2", "0", "h", " ",
    "a", "g", "o", DQuote, ",", DQuote, "2", "0", "0", "K", "+", " ", "s",
    "e", "a", "r", "c", "h", "e", "s", MidDot, DQuote, ",", DQuote, "2",
    "0", "0", "K", "+", " ", "s", "e", "a", "r", "c", "h", "e", "s",
    DQuote, ",", DQuote, MidDot, DQuote, ",", DQuote, "t", "r", "e", "n",
    "d", "i", "n", "g", "_", "u", "p", "A", "c", "t", "i", "v", "e",
    DQuote, ",", DQuote, "A", "c", "t", "i", "v", "e", DQuote, ",", DQuote,
    MidDot, "2", "0", "h", " ", "a", "g", "o", DQuote, ",", DQuote, MidDot,
    DQuote, ",", DQuote, "2", "0", "h", " ", "a", "g", "o", DQuote, ",",
    DQuote, "2", "0", "0", "K", "+", "a", "r", "r", "o", "w", "_", "u",
    "p", "w", "a", "r", "d", "1", ",", "0", "0", "0", "%", DQuote, ",",
    DQuote, "2", "0", "0", "K", "+", DQuote, ",", DQuote, "a", "r", "r",
    "o", "w", "_", "u", "p", "w", "a", "r", "d", "1", ",", "0", "0", "0",
    "%", DQuote, ",", DQuote, "1", ",", "0", "0", "0", "%", DQuote, ",",
    DQuote, "2", "0", " ", "h", "o", "u", "r", "s", " ", "a", "g", "o",
    DQuote, ",", DQuote, "t", "r", "e", "n", "d", "i", "n", "g", "_", "u",
    "p", "A", "c", "t", "i", "v", "e", DQuote, ",", DQuote, "t", "r", "e",
    "n", "d", "i", "n", "g", "_", "u", "p", "A", "c", "t", "i", "v", "e",
    DQuote, ",", DQuote, "A", "c", "t", "i", "v", "e", DQuote, ",", DQuote,
    "b", "r", "e", "t", "t", " ", "j", "a", "m", "e", "s", " ", "p", "l",
    "a", "n", "e", " ", "c", "r", "a", "s", "h", "b", "r", "e", "t", "t",
    " ", "j", "a", "m", "e", "s", " ", "p", "l", "a", "n", "e", " ", "c",
    "r", "a", "s", "h", "S", "e", "a", "r", "c", "h", " ", "t", "e", "r",
    "m", "q", "u", "e", "r", "y", "_", "s", "t", "a", "t", "s", "E", "x",
    "p", "l", "o", "r", "e", "b", "r", "e", "t", "t", " ", "j", "a", "m",
    "e", "s", " ", "s", "o", "n", "g", "s", "b", "r", "e", "t", "t", " ",
    "j", "a", "m", "e", "s", " ", "s", "o", "n", "g", "s", "S", "e", "a",
    "r", "c", "h", " ", "t", "e", "r", "m", "q", "u", "e", "r", "y", "_",
    "s", "t", "a", "t", "s", "E", "x", "p", "l", "o", "r", "e", "+", " ",
    "9", " ", "m", "o", "r", "e", DQuote, ",", DQuote, "b", "r", "e", "t",
    "t", " ", "j", "a", "m", "e", "s", " ", "p", "l", "a", "n", "e", " ",
    "c", "r", "a", "s", "h", "b", "r", "e", "t", "t", " ", "j", "a", "m",
    "e", "s", " ", "p", "l", "a", "n", "e", " ", "c", "r", "a", "s", "h",
    "S", "e", "a", "r", "c", "h", " ", "t", "e", "r", "m", "q", "u", "e",
    "r", "y", "_", "s", "t", "a", "t", "s", "E", "x", "p", "l", "o", "r",
    "e", DQuote, ",", DQuote, "b", "r", "e", "t", "t", " ", "j", "a", "m",
    "e", "s", " ", "p", "l", "a", "n", "e", " ", "c", "r", "a", "s", "h",
    "b", "r", "e", "t", "t", " ", "j", "a", "m", "e", "s", " ", "p", "l",
    "a", "n", "e", " ", "c", "r", "a", "s", "h", "S", "e", "a", "r", "c",
    "h", " ", "t", "e", "r", "m", "q", "u", "e", "r", "y", "_", "s", "t",
    "a", "t", "s", "E", "x", "p", "l", "o", "r", "e", DQuote, ",", DQuote,
    "b", "r", "e", "t", "t", " ", "j", "a", "m", "e", "s", " ", "p", "l",
    "a", "n", "e", " ", "c", "r", "a", "s", "h", "S", "e", "a", "r", "c",
    "h", " ", "t", "e", "r", "m", "q", "u", "e", "r", "y", "_", "s", "t",
    "a", "t", "s", "E", "x", "p", "l", "o", "r", "e", DQuote, ",", DQuote,
    "b", "r", "e", "t", "t", " ", "j", "a", "m", "e", "s", " ", "p", "l",
    "a", "n", "e", " ", "c", "r", "a", "s", "h", "S", "e", "a", "r", "c",
    "h", " ", "t", "e", "r", "m", "q", "u", "e", "r", "y", "_", "s", "t",
    "a", "t", "s", "E", "x", "p", "l", "o", "r", "e", DQuote, ",", DQuote,
    "b", "r", "e", "t", "t", " ", "j", "a", "m", "e", "s", " ", "p", "l",
    "a", "n", "e", " ", "c", "r", "a", "s", "h", "S", "e", "a", "r", "c",
    "h", " ", "t", "e", "r", "m", "q", "u", "e", "r", "y", "_", "s", "t",
    "a", "t", "s", "E", "x", "p", "l", "o", "r", "e", DQuote, ",", DQuote,
    "b", "r", "e", "t", "t", " ", "j", "a", "m", "e", "s", " ", "p", "l",
    "a", "n", "e", " ", "c", "r", "a", "s", "h", "S", "e", "a", "r", "c",
    "h", " ", "t", "e", "r", "m", "q", "u", "e", "r", "y", "_", "s", "t",
    "a", "t", "s", "E", "x", "p", "l", "o", "r", "e", DQuote, ",", DQuote,
    "b", "r", "e", "t", "t", " ", "j", "a", "m", "e", "s", " ", "p", "l",
    "a", "n", "e", " ", "c", "r", "a", "s", "h", "S", "e", "a", "r", "c",
    "h", " ", "t", "e", "r", "m", "q", "u", "e", "r", "y", "_", "s", "t",
    "a", "t", "s", "E", "x", "p", "l", "o", "r", "e", DQuote, ",", DQuote,
    "b", "r", "e", "t", "t", " ", "j", "a", "m", "e", "s", " ", "p", "l",
    "a", "n", "e", " ", "c", "r", "a", "s", "h", "S", "e", "a", "r", "c",
    "h", " ", "t", "e", "r", "m", DQuote, ",", DQuote, "b", "r", "e", "t",
    "t", " ", "j", "a", "m", "e", "s", " ", "p", "l", "a", "n", "e", " ",
    "c", "r", "a", "s", "h", "S", "e", "a", "r", "c", "h", " ", "t", "e",
    "r", "m", DQuote, ",", DQuote, "b", "r", "e", "t", "t", " ", "j", "a",
    "m", "e", "s", " ", "p", "l", "a", "n", "e", " ", "c", "r", "a", "s",
    "h", DQuote, ",", DQuote, "S", "e", "a", "r", "c", "h", " ", "t", "e",
    "r", "m", DQuote, ",", DQuote, "q", "u", "e", "r", "y", "_", "s", "t",
    "a", "t", "s", "E", "x", "p", "l", "o", "r", "e", DQuote, ",", DQuote,
    "q", "u", "e", "r", "y", "_", "s", "t", "a", "t", "s", "E", "x", "p",
    "l", "o", "r", "e", DQuote, ",", DQuote, "q", "u", "e", "r", "y", "_",
    "s", "t", "a", "t", "s", "E", "x", "p", "l", "o", "r", "e", DQuote,
    ",", DQuote, "q", "u", "e", "r", "y", "_", "s", "t", "a", "t", "s",
    "E", "x", "p", "l", "o", "r", "e", DQuote, ",", DQuote, "b", "r", "e",
    "t", "t", " ", "j", "a", "m", "e", "s", " ", "s", "o", "n", "g", "s",
    "b", "r", "e", "t", "t", " ", "j", "a", "m", "e", "s", " ", "s", "o",
    "n", "g", "s", "S", "e", "a", "r", "c", "h", " ", "t", "e", "r", "m",
    "q", "u", "e", "r", "y", "_", "s", "t", "a", "t", "s", "E", "x", "p",
    "l", "o", "r", "e", DQuote, ",", DQuote, "b", "r", "e", "t", "t", " ",
    "j", "a", "m", "e", "s", " ", "s", "o", "n", "g", "s", "b", "r", "e",
    "t", "t", " ", "j", "a", "m", "e", "s", " ", "s", "o", "n", "g", "s",
    "S", "e", "a", "r", "c", "h", " ", "t", "e", "r", "m", "q", "u", "e",
    "r", "y", "_", "s", "t", "a", "t", "s", "E", "x", "p", "l", "o", "r",
    "e", DQuote, ",", DQuote, "b", "r", "e", "t", "t", " ", "j", "a", "m",
    "e", "s", " ", "s", "o", "n", "g", "s", "S", "e", "a", "r", "c", "h",
    " ", "t", "e", "r", "m", "q", "u", "e", "r", "y", "_", "s", "t", "a",
    "t", "s", "E", "x", "p", "l", "o", "r", "e", DQuote, ",", DQuote, "b",
    "r", "e", "t", "t", " ", "j", "a", "m", "e", "s", " ", "s", "o", "n",
    "g", "s", "S", "e", "a", "r", "c", "h", " ", "t", "e", "r", "m", "q",
    "u", "e", "r", "y", "_", "s", "t", "a", "t", "s", "E", "x", "p", "l",
    "o", "r", "e", DQuote, ",", DQuote, "b", "r", "e", "t", "t", " ", "j",
    "a", "m", "e", "s", " ", "s", "o", "n", "g", "s", "S", "e", "a", "r",
    "c", "h", " ", "t", "e", "r", "m", "q", "u", "e", "r", "y", "_", "s",
    "t", "a", "t", "s", "E", "x", "p", "l", "o", "r", "e", DQuote, ",",
    DQuote, "b", "r", "e", "t", "t", " ", "j", "a", "m", "e", "s", " ",
    "s", "o", "n", "g", "s", "S", "e", "a", "r", "c", "h", " ", "t", "e",
    "r", "m", "q", "u", "e", "r", "y", "_", "s", "t", "a", "t", "s", "E",
    "x", "p", "l", "o", "r", "e", DQuote, ",", DQuote, "b", "r", "e", "t",
    "t", " ", "j", "a", "m", "e", "s", " ", "s", "o", "n", "g", "s", "S",
    "e", "a", "r", "c", "h", " ", "t", "e", "r", "m", "q", "u", "e", "r",
    "y", "_", "s", "t", "a", "t", "s", "E", "x", "p", "l", "o", "r", "e",
    DQuote, ",", DQuote, "b", "r", "e", "t", "t", " ", "j", "a", "m", "e",
    "s", " ", "s", "o", "n", "g", "s", "S", "e", "a", "r", "c", "h", " ",
    "t", "e", "r", "m", DQuote, ",", DQuote, "b", "r", "e", "t", "t", " ",
    "j", "a", "m", "e", "s", " ", "s", "o", "n", "g", "s", "S", "e", "a",
    "r", "c", "h", " ", "t", "e", "r", "m", DQuote, ",", DQuote, "b", "r",
    "e", "t", "t", " ", "j", "a", "m", "e", "s", " ", "s", "o", "n", "g",
    "s", DQuote, ",", DQuote, "S", "e", "a", "r", "c", "h", " ", "t", "e",
    "r", "m", DQuote, ",", DQuote, "q", "u", "e", "r", "y", "_", "s", "t",
    "a", "t", "s", "E", "x", "p", "l", "o", "r", "e", DQuote, ",", DQuote,
    "q", "u", "e", "r", "y", "_", "s", "t", "a", "t", "s", "E", "x", "p",
    "l", "o", "r", "e", DQuote, ",", DQuote, "q", "u", "e", "r", "y", "_",
    "s", "t", "a", "t", "s", "E", "x", "p", "l", "o", "r", "e", DQuote,
    ",", DQuote, "q", "u", "e", "r", "y", "_", "s", "t", "a", "t", "s",
    "E", "x", "p", "l", "o", "r", "e", DQuote, ",", DQuote, "m", "o", "r",
    "e", "_", "v", "e", "r", "t", "M", "o", "r", "e", " ", "a", "c", "t",
    "i", "o", "n", "s", "c", "h", "e", "c", "k", "l", "i", "s", "t", "S",
    "e", "l", "e", "c", "t", "q", "u", "e", "r", "y", "_", "s", "t", "a",
    "t", "s", "E", "x", "p", "l", "o", "r", "e", "S", "e", "a", "r", "c",
    "h", " ", "i", "t", DQuote, ",", DQuote, "m", "o", "r", "e", "_", "v",
    "e", "r", "t", "M", "o", "r", "e", " ", "a", "c", "t", "i", "o", "n",
    "s", DQuote, ",", DQuote, "M", "o", "r", "e", " ", "a", "c", "t", "i",
    "o", "n", "s", DQuote, ",", DQuote, "c", "h", "e", "c", "k", "l", "i",
    "s", "t", "S", "e", "l", "e", "c", "t", "q", "u", "e", "r", "y", "_",
    "s", "t", "a", "t", "s", "E", "x", "p", "l", "o", "r", "e", "S", "e",
    "a", "r", "c", "h", " ", "i", "t", DQuote, ",", DQuote, "c", "h", "e",
    "c", "k", "l", "i", "s", "t", "S", "e", "l", "e", "c", "t", "q", "u",
    "e", "r", "y", "_", "s", "t", "a", "t", "s", "E", "x", "p", "l", "o",
    "r", "e", "S", "e", "a", "r", "c", "h", " ", "i", "t", DQuote, ",",
    DQuote, "c", "h", "e", "c", "k", "l", "i", "s", "t", "S", "e", "l",
    "e", "c", "t", "q", "u", "e", "r", "y", "_", "s", "t", "a", "t", "s",
    "E", "x", "p", "l", "o", "r", "e", "S", "e", "a", "r", "c", "h", " ",
    "i", "t", DQuote>>

\* first fragments of a row
HeadFrags ==
  { <<"a", "b", "c", "d">>,
    <<DQuote, "a", "b", "c", "d", DQuote>>,
    <<>>,
    <<"a", "b", ",", " ", "c", "d">>,
    <<"a", "b", DQuote, "c", "d">> }

\* later fragments of a row
TailFrags ==
  { <<"2", "0", "0", "K", "+", " ", "s", "e", "a", "r", "c", "h", "e", "s",
      MidDot, "t", "r", "e", "n", "d", "i", "n", "g", "_", "u", "p", "A",
      "c", "t", "i", "v", "e", MidDot, "2", "0", "h", " ", "a", "g", "o">>,
    <<"K", "+", " ", "s", "e", "a", "r", "c", "h", "e", "s">>,
    <<MidDot, "l", "o", "n", "g", " ", "a", "g", "o">>,
    <<MidDot, "5", "m", " ", "a", "g", "o">>,
    <<"1", ",", "0", "0", "0", "%">>,
    <<"1", "2", "3", "4", "%">>,
    <<"a", "b", "c", "d", " ", "s", "o", "n", "g", "s">>,
    <<MidDot, "s", "o", "n", "g", "s", MidDot>>,
    <<"A", "c", "t", "i", "v", "e">>,
    <<DQuote, "s", "o", "n", "g", "s", ",", " ", "c", "r", "a", "s", "h",
      DQuote>> }

\* the longest list of later fragments of a row of fragments
MaxTail == 2

\* sequences over S of length at most n
SeqsUpTo(S, n) == UNION {[1..k -> S] : k \in 0..n}

\* rows of a first fragment and at most MaxTail later ones
FragmentRows ==
  {ArrayRow(<<h>> \o tl) : h \in HeadFrags, tl \in SeqsUpTo(TailFrags, MaxTail)}

\* the distinct related terms a long row can hold
TermLetters == <<"a", "b", "c", "d", "e", "f", "g", "h", "i", "j">>
Term(i) == <<"t", "e", "r", "m", " ">> \o <<TermLetters[i]>>

\* the number of later fragments of a long row
LongLen == 7

\* the i-th later fragment of a long row: a new term or the term two places
\* back
LongChoices(i) == {Term(i), Term(IF i > 2 THEN i - 2 ELSE 1)}

\* the lists of the first n later fragments of a long row
RECURSIVE LongTails(_)
LongTails(n) ==
  IF n = 0 THEN {<<>>}
  ELSE {Append(tl, c) : tl \in LongTails(n - 1), c \in LongChoices(n)}

\* rows of the trend name "abcd" and LongLen later fragments
LongRows ==
  {ArrayRow(<<<<"a", "b", "c", "d">>>> \o tl) : tl \in LongTails(LongLen)}

\* the characters of the short blobs
BlobAlphabet == {"a", ",", DQuote, BSlash, " "}

\* the longest short blob
MaxBlobLen == 4

ShortBlobRows == {StringRow(b) : b \in SeqsUpTo(BlobAlphabet, MaxBlobLen)}

\* the characters of the short blobs of digits and percent signs
PercentAlphabet == {"1", ",", "%", DQuote}

\* the longest such blob
MaxPercentLen == 4

PercentBlobRows == {StringRow(b) : b \in SeqsUpTo(PercentAlphabet, MaxPercentLen)}

\* the rows a batch is drawn from
BatchPool ==
  { ArrayRow(<<>>),
    StringRow(<<>>),
    StringRow(<<DQuote, "a", "b", "c", "d", DQuote, ",", MidDot, "5", "m", " ", "a", "g", "o">>),
    ArrayRow(<<<<"a", "b", "c", "d">>,
               <<"2", " ", "h", "o", "u", "r", "s", " ", "a", "g", "o">>,
               <<"a", "b", "c", "d", " ", "s", "o", "n", "g", "s">>,
               <<"l", "o", "n", "g", " ", "a", "g", "o">>,
               Term(1), Term(2),
               <<"5", "K", "+", " ", "s", "e", "a", "r", "c", "h", "e", "s">>,
               <<"1", ",", "0", "0", "0", "%">>>>),
    ArrayRow(<<Term(2)>>) }

\* the longest batch
MaxRows == 3

Batches == SeqsUpTo(BatchPool, MaxRows)

\* ------------------------------------------------------------------------
\* The pipeline: scrape's cleanTrendsDataArray and convertCleanedDataToCSV,
\* then the parse of evaluateTopics
\* ------------------------------------------------------------------------
Init ==
  /\ mode \in Modes
  /\ \/ \E row \in FragmentRows \cup LongRows \cup ShortBlobRows
                     \cup PercentBlobRows :
          rawDataArray = <<row>>
     \/ rawDataArray \in {<<StringRow(ScenarioA)>>, <<StringRow(ExampleRawData)>>}
     \/ rawDataArray \in Batches
  /\ cleaned = <<>>
  /\ csv = <<>>
  /\ parsed = <<>>
  /\ pc = "map"

\* a map step that puts the new record first
MapRowPrepend ==
  /\ pc = "map"
  /\ Len(cleaned) < Len(rawDataArray)
  /\ cleaned' = <<CleanRow(mode, rawDataArray[Len(cleaned) + 1])>> \o cleaned
  /\ UNCHANGED <<mode, rawDataArray, csv, parsed, pc>>

\* one call of the callback of rawDataArray.map
MapRow ==
  /\ pc = "map"
  /\ Len(cleaned) < Len(rawDataArray)
  /\ cleaned' = Append(cleaned, CleanRow(mode, rawDataArray[Len(cleaned) + 1]))
  /\ UNCHANGED <<mode, rawDataArray, csv, parsed, pc>>

\* convertCleanedDataToCSV on the array the map returned
ConvertToCSV ==
  /\ pc = "map"
  /\ Len(cleaned) = Len(rawDataArray)
  /\ csv' = convertCleanedDataToCSV(cleaned)
  /\ pc' = "csv"
  /\ UNCHANGED <<mode, rawDataArray, cleaned, parsed>>

\* evaluateTopics reads the file back
EvaluateTopics ==
  /\ pc = "csv"
  /\ parsed' = ParseCSV(csv)
  /\ pc' = "parsed"
  /\ UNCHANGED <<mode, rawDataArray, cleaned, csv>>

Next == MapRow \/ ConvertToCSV \/ EvaluateTopics

Spec == Init /\ [][Next]_vars

\* ------------------------------------------------------------------------
\* Properties
\* ------------------------------------------------------------------------
\* the rows the map has handled so far
Done == 1..Len(cleaned)

\* the blob of row i: a fragment list is joined with ','
BlobOfRow(i) ==
  IF rawDataArray[i].kind = "array" THEN Join(rawDataArray[i].value, <<",">>)
  ELSE rawDataArray[i].value

\* the field list of row i
FieldsOfRow(i) == SplitFields(mode, BlobOfRow(i))

\* the cleaned fields of row i
CleanFieldsOfRow(i) ==
  LET f == FieldsOfRow(i) IN [k \in 1..Len(f) |-> CleanField(f[k])]

NoDuplicates(s) == \A j, k \in 1..Len(s) : j # k => s[j] # s[k]

Range(s) == {s[k] : k \in 1..Len(s)}

\* C1: every record's relatedSearches has at most 5 entries and holds no
\* string twice, in both variants
C1_AtMostFiveNoDuplicates ==
  \A i \in Done :
    /\ Len(cleaned[i].relatedSearches) <= 5
    /\ NoDuplicates(cleaned[i].relatedSearches)

\* a record of five related terms whose row holds more than five distinct
\* fields besides the trend name and repeats one of the five
C1_Witness ==
  \E i \in Done :
    /\ Len(cleaned[i].relatedSearches) = 5
    /\ LET cf == CleanFieldsOfRow(i) IN
       /\ Cardinality(Range(cf)) > 6
       /\ \E j, k \in 1..Len(cf) :
            j < k /\ cf[j] = cf[k] /\ cf[j] \in Range(cleaned[i].relatedSearches)

\* C2: no entry of relatedSearches equals or contains the record's trendName,
\* and none contains "%", "searches" or "ago"
C2_NoTrendNameNoMetrics ==
  \A i \in Done :
    \A e \in Range(cleaned[i].relatedSearches) :
      /\ e # cleaned[i].trendName
      /\ ~Includes(e, cleaned[i].trendName)
      /\ ~Includes(e, <<"%">>)
      /\ ~Includes(e, <<"s", "e", "a", "r", "c", "h", "e", "s">>)
      /\ ~Includes(e, <<"a", "g", "o">>)

\* a record with a related term whose row also holds an alphabetic field
\* containing the trend name and an alphabetic field containing "ago"
C2_Witness ==
  \E i \in Done :
    /\ cleaned[i].relatedSearches # <<>>
    /\ LET cf == Range(CleanFieldsOfRow(i)) IN
       /\ \E c \in cf :
            /\ IsAlphaSpace(c)
            /\ c # cleaned[i].trendName
            /\ Includes(c, cleaned[i].trendName)
       /\ \E c \in cf : IsAlphaSpace(c) /\ Includes(c, <<"a", "g", "o">>)

\* C3: no entry of relatedSearches contains one of the seven noise labels
C3_NoNoiseLabel ==
  \A i \in Done :
    \A e \in Range(cleaned[i].relatedSearches) :
      \A k \in 1..7 : ~Includes(e, noiseWords[k])

\* a record with a related term whose row also holds an alphabetic field
\* of more than 3 characters that contains a noise label and not the trend
\* name
C3_Witness ==
  \E i \in Done :
    /\ cleaned[i].relatedSearches # <<>>
    /\ \E c \in Range(CleanFieldsOfRow(i)) :
         /\ IsAlphaSpace(c)
         /\ Len(c) > 3
         /\ ~Includes(c, cleaned[i].trendName)
         /\ \E k \in 1..7 : Includes(c, noiseWords[k])

\* C4: the batch returns one record per row in input order: once the map
\* has returned, the output is as long as the input, and the i-th record is
\* the record of the i-th row, a fragment list being joined with ','
C4_OneRecordPerRowInOrder ==
  /\ pc # "map" => Len(cleaned) = Len(rawDataArray)
  /\ Len(cleaned) <= Len(rawDataArray)
  /\ \A i \in Done : cleaned[i] = cleanTrendsData(mode, BlobOfRow(i))

\* a finished batch of three rows, fragment lists and blobs, whose first two
\* records differ
C4_Witness ==
  /\ pc # "map"
  /\ Len(rawDataArray) = 3
  /\ Len(cleaned) = 3
  /\ \E i, j \in Done : rawDataArray[i].kind # rawDataArray[j].kind
  /\ \E i \in Done : rawDataArray[i].kind = "array" /\ Len(rawDataArray[i].value) > 1
  /\ cleaned[1] # cleaned[2]

\* a row that is an empty fragment list or whose blob yields zero fields
Malformed(i) ==
  \/ rawDataArray[i].kind = "array" /\ rawDataArray[i].value = <<>>
  \/ FieldsOfRow(i) = <<>>

EmptyRecord ==
  [trendName |-> <<>>, searchVolume |-> <<>>, timeAgo |-> <<>>,
   growthPercentage |-> <<>>, relatedSearches |-> <<>>]

\* C5: a malformed row does not abort the batch: its record is the empty
\* record, the batch still ends with one record per row, and the other rows
\* of such a batch get the records they get on their own
C5_MalformedRowAbsorbed ==
  \A i \in Done :
    Malformed(i) =>
      /\ cleaned[i] = EmptyRecord
      /\ pc # "map" => Len(cleaned) = Len(rawDataArray)
      /\ \A j \in Done \ {i} : cleaned[j] = cleanTrendsData(mode, BlobOfRow(j))

\* Scenario C: a finished batch of three rows, the second an empty fragment
\* list, the first and the third with a trend name
C5_Witness ==
  /\ pc # "map"
  /\ Len(cleaned) = 3
  /\ rawDataArray[2] = ArrayRow(<<>>)
  /\ cleaned[1].trendName # <<>>
  /\ cleaned[3].trendName # <<>>

\* a row of non-empty, trimmed, newline-free fragments
WellFormed(i) ==
  /\ rawDataArray[i].kind = "array"
  /\ Len(rawDataArray[i].value) >= 1
  /\ \A k \in 1..Len(rawDataArray[i].value) :
       LET frag == rawDataArray[i].value[k]
       IN  /\ frag # <<>>
           /\ Trim(frag) = frag
           /\ \A n \in 1..Len(frag) : frag[n] # NewLine

\* the first fragment of row i after the variant's trim and quote-strip
FirstFragmentCleaned(i) ==
  IF mode = "simple" THEN Trim(RemoveQuotes(rawDataArray[i].value[1]))
  ELSE StripWrapQuotes(Trim(rawDataArray[i].value[1]))

\* C6: the record of a well-formed row has the row's first fragment, trimmed
\* and quote-stripped, as its trendName
C6_TrendNameIsFirstFragment ==
  \A i \in Done :
    WellFormed(i) => cleaned[i].trendName = FirstFragmentCleaned(i)

\* C7: round trip: the naive parser, applied to each non-header line of the
\* serialized records, recovers trendName, searchVolume, timeAgo and
\* growthPercentage of each record
C7_RoundTrip ==
  pc = "parsed" =>
    LET lines == DataLines(csv) IN
    /\ Len(lines) = Len(cleaned)
    /\ \A i \in 1..Len(cleaned) :
         LET r == ParseLine(lines[i]) IN
         /\ r.trendName = cleaned[i].trendName
         /\ r.searchVolume = cleaned[i].searchVolume
         /\ r.timeAgo = cleaned[i].timeAgo
         /\ r.growthPercentage = cleaned[i].growthPercentage

\* C8: Scenario A: the quote-aware record of the blob has the four values
\* of the scenario and a relatedSearches list that includes "plane crash",
\* excludes "Search term" and excludes every entry containing "brett james"
C8_ScenarioA ==
  (/\ mode = "quoteAware"
   /\ rawDataArray = <<StringRow(ScenarioA)>>
   /\ Len(cleaned) = 1) =>
    /\ cleaned[1].trendName = <<"b", "r", "e", "t", "t", " ", "j", "a", "m", "e", "s">>
    /\ cleaned[1].searchVolume = <<"2", "0", "0", "K", "+">>
    /\ cleaned[1].timeAgo = <<"2", "0", "h", " ", "a", "g", "o">>
    /\ cleaned[1].growthPercentage = <<"1", ",", "0", "0", "0", "%">>
    /\ <<"p", "l", "a", "n", "e", " ", "c", "r", "a", "s", "h">> \in Range(cleaned[1].relatedSearches)
    /\ <<"S", "e", "a", "r", "c", "h", " ", "t", "e", "r", "m">> \notin Range(cleaned[1].relatedSearches)
    /\ \A e \in Range(cleaned[1].relatedSearches) : ~Includes(e, <<"b", "r", "e", "t", "t", " ", "j", "a", "m", "e", "s">>)

\* the distinct strings of the cleaned fields cf that pass the admission
\* filter for trendName
AdmittedOf(cf, trendName) == {c \in Range(cf) : Admits(c, trendName)}

\* the index of the first of the cleaned fields cf that is c
FirstSeen(cf, c) == MinOrZero({k \in 1..Len(cf) : cf[k] = c})

\* C9: Scenario D: with more than 5 distinct admitted fields, relatedSearches
\* is exactly the first 5 of them in first-seen order
C9_FirstFiveInAdmissionOrder ==
  \A i \in Done :
    LET cf == CleanFieldsOfRow(i)
        adm == AdmittedOf(cf, TrendNameOf(FieldsOfRow(i)))
        r == cleaned[i].relatedSearches
    IN  Cardinality(adm) > 5 =>
          /\ Len(r) = 5
          /\ Range(r) \subseteq adm
          /\ \A j, k \in 1..Len(r) :
               j < k => FirstSeen(cf, r[j]) < FirstSeen(cf, r[k])
          /\ \A c \in adm \ Range(r) :
               \A k \in 1..Len(r) : FirstSeen(cf, r[k]) < FirstSeen(cf, c)

\* a row with more than 5 distinct admitted fields, one of them seen again
\* after a later admitted field, both among the five
C9_Witness ==
  \E i \in Done :
    LET cf == CleanFieldsOfRow(i)
        adm == AdmittedOf(cf, TrendNameOf(FieldsOfRow(i)))
        r == Range(cleaned[i].relatedSearches)
    IN  /\ Cardinality(adm) > 5
        /\ \E j, k, n \in 1..Len(cf) :
             /\ j < k
             /\ k < n
             /\ cf[j] = cf[n]
             /\ cf[j] # cf[k]
             /\ {cf[j], cf[k]} \subseteq r

\* digits, optional whitespace, a unit (hours/hour/h/minutes/minute/m),
\* optional whitespace, 'ago', and nothing else
IsElapsedPhrase(s) == Len(s) >= 1 /\ TimeEndAtFull(s, 1) = Len(s)

\* C10 as stated: timeAgo is empty or an elapsed-time phrase
C10_TimeAgoEmptyOrPhrase ==
  \A i \in Done :
    cleaned[i].timeAgo = <<>> \/ IsElapsedPhrase(cleaned[i].timeAgo)

\* the first of the fields f containing 'ago', 0 if none
FirstAgoField(f) == MinOrZero({k \in 1..Len(f) : Includes(f[k], <<"a", "g", "o">>)})

\* the field holds a phrase the variant's pattern finds
HoldsPhrase(s) ==
  \E p \in 1..Len(s) :
    IF mode = "simple" THEN TimeEndAtHours(s, p) # 0 ELSE TimeEndAtFull(s, p) # 0

\* C10 amended: timeAgo is empty exactly when no field contains 'ago';
\* otherwise it is an elapsed-time phrase when the first such field holds one
\* the variant's pattern finds, and else that field without one leading
\* middle dot, trimmed
C10_TimeAgoPhraseOrField ==
  \A i \in Done :
    LET f == FieldsOfRow(i)
        k == FirstAgoField(f)
        t == cleaned[i].timeAgo
    IN  IF k = 0 THEN t = <<>>
        ELSE IF HoldsPhrase(f[k]) THEN IsElapsedPhrase(t)
        ELSE /\ t # <<>>
             /\ t = Trim(IF f[k][1] = MidDot THEN Tail(f[k]) ELSE f[k])

\* a record whose timeAgo is a field that lost its leading middle dot and
\* is no elapsed-time phrase
C10_Witness ==
  \E i \in Done :
    LET f == FieldsOfRow(i)
        k == FirstAgoField(f)
    IN  /\ k # 0
        /\ f[k][1] = MidDot
        /\ cleaned[i].timeAgo # <<>>
        /\ cleaned[i].timeAgo # f[k]
        /\ ~IsElapsedPhrase(cleaned[i].timeAgo)

\* the related searches as one cell: the terms in order with "; " between
\* consecutive ones
RECURSIVE RelatedCell(_)
RelatedCell(terms) ==
  IF Len(terms) = 0 THEN <<>>
  ELSE IF Len(terms) = 1 THEN terms[1]
  ELSE terms[1] \o <<";", " ">> \o RelatedCell(Tail(terms))

\* the five cells of a record, each between double quotes, with commas
\* between them
FiveWrappedCells(r) ==
  <<DQuote>> \o r.trendName \o <<DQuote, ",", DQuote>> \o r.searchVolume
    \o <<DQuote, ",", DQuote>> \o r.timeAgo
    \o <<DQuote, ",", DQuote>> \o r.growthPercentage
    \o <<DQuote, ",", DQuote>> \o RelatedCell(r.relatedSearches) \o <<DQuote>>

\* C11: the serializer's output for n records is the header line followed by
\* exactly n lines, each ended by '\n', the i-th being the five
\* double-quote-wrapped cells of the i-th record with the related searches
\* joined by "; "; for no records it is the header line alone
C11_HeaderThenOneLinePerRecord ==
  pc # "map" =>
    LET lines == SplitOn(csv, NewLine)
        n == Len(cleaned)
    IN  /\ Len(lines) = n + 2
        /\ lines[1] = LitHeader
        /\ lines[n + 2] = <<>>
        /\ \A i \in 1..n : lines[i + 1] = FiveWrappedCells(cleaned[i])

\* the output for a batch of at least two different records, one of them
\* with several related searches
C11_Witness ==
  /\ pc # "map"
  /\ Len(cleaned) >= 2
  /\ \E i, j \in Done :
       /\ i < j
       /\ cleaned[i] # cleaned[j]
       /\ Len(cleaned[j].relatedSearches) >= 2
       /\ cleaned[i].trendName # <<>>

\* the double quote at position j of b is not preceded by a backslash
Unescaped(b, j) == b[j] = DQuote /\ (j = 1 \/ b[j - 1] # BSlash)

\* position p of b lies in a quoted segment: an odd number of unescaped double
\* quotes comes before it
InQuotedSegment(b, p) ==
  Cardinality({j \in 1..(p - 1) : Unescaped(b, j)}) % 2 = 1

\* the commas of b outside every quoted segment
TopLevelCommas(b) ==
  {p \in 1..Len(b) : b[p] = "," /\ ~InQuotedSegment(b, p)}

\* the k-th element of the set of positions cs in increasing order, 0 for
\* k = 0 and past the end of b for k beyond the set
NthComma(b, cs, k) ==
  IF k = 0 THEN 0
  ELSE IF k > Cardinality(cs) THEN Len(b) + 1
  ELSE CHOOSE p \in cs : Cardinality({q \in cs : q < p}) = k - 1

\* C12: in quote-aware mode the fields are, in source order, the stretches of
\* the blob between consecutive commas outside quoted segments (each trimmed
\* and stripped of its wrapping quotes): a comma inside a quoted segment ends
\* no field, and the stretch after the last such comma is the final field
\* exactly when it is not empty
C12_SplitAtTopLevelCommas ==
  mode = "quoteAware" =>
    \A i \in Done :
      LET b == BlobOfRow(i)
          f == SplitQuoteAware(b)
          cs == TopLevelCommas(b)
          n == Cardinality(cs)
          rest == Sub(b, NthComma(b, cs, n) + 1, Len(b))
      IN  /\ Len(f) = n + (IF rest # <<>> THEN 1 ELSE 0)
          /\ \A k \in 1..Len(f) :
               f[k] = CleanQuoted(Sub(b, NthComma(b, cs, k - 1) + 1,
                                      NthComma(b, cs, k) - 1))

\* a blob split in quote-aware mode that holds a comma inside a quoted
\* segment, a comma outside and content after the last comma outside
C12_Witness ==
  /\ mode = "quoteAware"
  /\ \E i \in Done :
       LET b == BlobOfRow(i)
           cs == TopLevelCommas(b)
       IN  /\ cs # {}
           /\ \E p \in 1..Len(b) : b[p] = "," /\ p \notin cs
           /\ \A p \in cs : p < Len(b)
           /\ b[Len(b)] # ","
           /\ Len(SplitQuoteAware(b)) = Cardinality(cs) + 1

\* s is one to three digits, then any number of groups of a comma and exactly
\* three digits, then '%'
IsGroupedPercent(s) ==
  LET n == Len(s) - 1 IN
  /\ n >= 1
  /\ s[n + 1] = "%"
  /\ \A k \in 1..n : s[k] \in Digits \cup {","}
  /\ \E h \in 1..3 :
       /\ h <= n
       /\ \A k \in 1..h : s[k] \in Digits
       /\ h = n \/ s[h + 1] = ","
  /\ \A k \in 1..n :
       s[k] = "," =>
         /\ k + 3 <= n
         /\ \A d \in 1..3 : s[k + d] \in Digits
         /\ k + 4 <= n => s[k + 4] = ","

\* the stretches <<p, e>> of b that are a grouped-thousands percentage: e is
\* a '%' and p lies in the run of digits and commas that ends before it
GroupedOccurrences(b) ==
  UNION { { <<p, e>> : p \in { q \in (SkipRunBack(b, e - 1, Digits \cup {","}) + 1)..(e - 1) :
                                 IsGroupedPercent(Sub(b, q, e)) } } :
          e \in {x \in 1..Len(b) : b[x] = "%"} }

\* C13: in the quote-aware cleaner, when a grouped-thousands percentage
\* occurs anywhere in the raw blob, growthPercentage is the occurrence that
\* starts leftmost in the whole blob, field boundaries notwithstanding; when
\* the blob holds no '%', growthPercentage is ""
C13_WholeBlobGroupedMatch ==
  mode = "quoteAware" =>
    \A i \in Done :
      LET b == BlobOfRow(i)
          occ == GroupedOccurrences(b)
          g == cleaned[i].growthPercentage
      IN  /\ occ # {} =>
               \E o \in occ : /\ \A o2 \in occ : o[1] <= o2[1]
                              /\ g = Sub(b, o[1], o[2])
          /\ (\A p \in 1..Len(b) : b[p] # "%") => g = <<>>

\* a quote-aware record whose growthPercentage runs over a comma that
\* separates two fields, so that no field holds it
C13_Witness ==
  /\ mode = "quoteAware"
  /\ \E i \in Done :
       LET f == FieldsOfRow(i)
           g == cleaned[i].growthPercentage
       IN  /\ Includes(g, <<",">>)
           /\ Len(f) >= 3
           /\ \A k \in 1..Len(f) : ~Includes(f[k], g)
           /\ Cardinality(GroupedOccurrences(BlobOfRow(i))) > 1

\* the field contains "searches" and also "K+", "M+" or a digit
QualifiesForVolume(field) ==
  /\ Includes(field, <<"s", "e", "a", "r", "c", "h", "e", "s">>)
  /\ \/ Includes(field, <<"K", "+">>)
     \/ Includes(field, <<"M", "+">>)
     \/ \E p \in 1..Len(field) : field[p] \in Digits

\* t is digits, then optionally K or M in either case, then optionally '+'
IsVolumeGroup(t) ==
  \E nd \in 1..Len(t) :
    /\ \A k \in 1..nd : t[k] \in Digits
    /\ Sub(t, nd + 1, Len(t)) \in
         {<<>>, <<"+">>} \cup
         UNION {{<<c>>, <<c, "+">>} : c \in {"K", "M", "k", "m"}}

\* t is optional whitespace, then "searche" in any case, then anything; the
\* optional final "s" of the pattern adds nothing to the captured group
IsSearchTail(t) ==
  \E w \in 0..Len(t) :
    /\ \A k \in 1..w : t[k] \in WhiteSpace
    /\ w + 7 <= Len(t)
    /\ [k \in 1..7 |-> Fold(t[w + k])] = <<"s", "e", "a", "r", "c", "h", "e">>

\* the stretches <<p, e>> of s that are a volume group followed by a search
\* tail
VolumeOccurrences(s) ==
  {o \in {p \in 1..Len(s) : s[p] \in Digits} \X (1..Len(s)) :
     /\ o[1] <= o[2]
     /\ IsVolumeGroup(Sub(s, o[1], o[2]))
     /\ IsSearchTail(Sub(s, o[2] + 1, Len(s)))}

\* C14: searchVolume is decided by the first field, in field order, that
\* contains "searches" and "K+", "M+" or a digit: it is the group the volume
\* pattern captures at its leftmost occurrence in that field, and "" when no
\* field qualifies or the pattern occurs nowhere in that field, whatever
\* later fields hold
C14_FirstQualifyingFieldDecides ==
  \A i \in Done :
    LET f == FieldsOfRow(i)
        q == MinOrZero({k \in 1..Len(f) : QualifiesForVolume(f[k])})
        v == cleaned[i].searchVolume
    IN  IF q = 0 THEN v = <<>>
        ELSE LET occ == VolumeOccurrences(f[q])
             IN  IF occ = {} THEN v = <<>>
                 ELSE \E o \in occ : /\ \A o2 \in occ : o[1] <= o2[1]
                                     /\ v = Sub(f[q], o[1], o[2])

\* a record with an empty searchVolume whose first qualifying field holds no
\* occurrence of the pattern while a later qualifying field holds one
C14_Witness ==
  \E i \in Done :
    LET f == FieldsOfRow(i)
        q == MinOrZero({k \in 1..Len(f) : QualifiesForVolume(f[k])})
    IN  /\ q # 0
        /\ cleaned[i].searchVolume = <<>>
        /\ \E k \in (q + 1)..Len(f) :
             QualifiesForVolume(f[k]) /\ VolumeOccurrences(f[k]) # {}

\* the cleaned field passes every admission test other than the trend-name
\* test
PassesOtherTests(cf) ==
  /\ Len(cf) > 3
  /\ \A k \in 1..Len(noiseWords) : ~Includes(cf, noiseWords[k])
  /\ ~Includes(cf, <<"s", "e", "a", "r", "c", "h", "e", "s">>)
  /\ ~Includes(cf, <<"%">>)
  /\ ~Includes(cf, <<"a", "g", "o">>)
  /\ \A k \in 1..Len(cf) : cf[k] \in LowerLetters \cup UpperLetters \cup WhiteSpace

\* C15: a record whose trendName is the empty string has no related
\* searches, whatever its other fields contain
C15_EmptyNameNoRelated ==
  \A i \in Done :
    cleaned[i].trendName = <<>> => cleaned[i].relatedSearches = <<>>

\* a record with an empty trendName whose row holds a field that passes
\* every other admission test
C15_Witness ==
  \E i \in Done :
    /\ cleaned[i].trendName = <<>>
    /\ LET cf == CleanFieldsOfRow(i)
       IN  \E k \in 1..Len(cf) : PassesOtherTests(cf[k])

\* C16: in the quote-aware cleaner, for every raw blob in which no
\* grouped-thousands percentage occurs, growthPercentage is "": the per-field
\* fallback never produces a value
C16_FallbackNeverProduces ==
  mode = "quoteAware" =>
    \A i \in Done :
      GroupedOccurrences(BlobOfRow(i)) = {} => cleaned[i].growthPercentage = <<>>

\* a quote-aware record of a blob without a grouped-thousands percentage one
\* of whose fields holds both a '%' and a digit, so that the fallback runs its
\* patterns on that field
C16_Witness ==
  /\ mode = "quoteAware"
  /\ \E i \in Done :
       LET f == FieldsOfRow(i)
       IN  /\ GroupedOccurrences(BlobOfRow(i)) = {}
           /\ \E k \in 1..Len(f) :
                /\ Includes(f[k], <<"%">>)
                /\ \E p \in 1..Len(f[k]) : f[k][p] \in Digits

\* the variant the run does not use
OtherMode == IF mode = "simple" THEN "quoteAware" ELSE "simple"

\* C17: for every raw blob without a double-quote character the simple and
\* the quote-aware cleaner return the same trendName, the same searchVolume
\* and the same relatedSearches
C17_VariantsAgreeWithoutQuotes ==
  \A i \in Done :
    LET b == BlobOfRow(i) IN
    (\A p \in 1..Len(b) : b[p] # DQuote) =>
      LET other == cleanTrendsData(OtherMode, b)
      IN  /\ cleaned[i].trendName = other.trendName
          /\ cleaned[i].searchVolume = other.searchVolume
          /\ cleaned[i].relatedSearches = other.relatedSearches

\* a blob without double quotes whose record has a trend name, a search
\* volume and related searches, and on which the two variants differ in
\* growthPercentage
C17_Witness ==
  \E i \in Done :
    LET b == BlobOfRow(i)
        other == cleanTrendsData(OtherMode, b)
    IN  /\ \A p \in 1..Len(b) : b[p] # DQuote
        /\ cleaned[i].trendName # <<>>
        /\ cleaned[i].searchVolume # <<>>
        /\ cleaned[i].relatedSearches # <<>>
        /\ cleaned[i].growthPercentage # other.growthPercentage

====
